---- MODULE Spec2Model ----
(***************************************************************************)
(* Streaming Exchange Coordinator of the chat UI.                          *)
(*                                                                         *)
(* The model follows one conversation panel (Conversation component) and   *)
(* its MessageInput: the send handler with its optimistic update, the      *)
(* request, the stream read loop, the reconciliation fetch, the rollback   *)
(* paths and the cancel button.  Every action is one run of JavaScript     *)
(* between two awaits (the event loop is single-threaded).                 *)
(***************************************************************************)
EXTENDS Integers, Sequences, FiniteSets, TLC

(* ---------------------------- bounds ----------------------------------- *)
\* accepted sends (requests issued) in one behaviour
MaxSends == 2
\* chunks of one frame read in one behaviour of Spec
MaxReads == 2
\* chunks read in one behaviour of SpecStream
MaxChunks == 3
\* lines in one chunk
MaxLines == 2
\* length of the accumulated response text of one Exchange
MaxText == 3

(* ---------------------------- values ----------------------------------- *)
Null == "null"
NoUsage == "undefined"
StreamUsage == "u1"
FinalUsage == "u2"

\* ids of the conversations in the shared metadata list
ConvIds == {"c1", "c2"}
\* id the server may assign to the assistant message in message_start
ServerId == 900
\* what the user may have typed: a text is a sequence of characters
Texts == {<<>>, <<" ">>, <<"h">>, <<" ", "h">>}
\* the persona picker: none, or the conversation c2 as target persona
Personas == {Null, "c2"}
\* texts carried by a text delta
DeltaTexts == {<<"a">>, <<"b">>, <<"c">>}

\* the messages of a conversation that has had one exchange
PriorMessages ==
  << [id |-> 801, role |-> "user", text |-> <<"h">>, usage |-> NoUsage],
     [id |-> 802, role |-> "assistant", text |-> <<"a">>, usage |-> FinalUsage] >>

\* closure of handleSend when no Exchange is running
NoExchange ==
  [ userMessageId |-> 0, assistantMessageId |-> 0, userMessage |-> FALSE,
    messageText |-> <<>>, abortController |-> 0, currentId |-> Null,
    conversations |-> [c \in ConvIds |-> 0], currentMetadata |-> 0 ]

VARIABLES
  pc,                 \* where the running handleSend is suspended
  messages,           \* useState messages of the panel (the Message Store)
  conversations,      \* App's shared list: conversation id -> message_count
  currentId,          \* the conversation open in the panel
  loading,            \* useState loading
  error,              \* useState error
  inputValue,         \* MessageInput's text box
  selectedPersona,    \* MessageInput's persona picker
  abortControllerRef, \* MessageInput's abortControllerRef.current (0 = null)
  controllers,        \* number of AbortControllers created so far
  aborted,            \* the controllers whose signal is aborted
  exch,               \* the closure of the running handleSend
  responseText,       \* local accumulator of the running handleSend
  uuid,               \* number of ids drawn from crypto.randomUUID()
  requests,           \* POST requests issued
  reads,              \* chunks read
  \* history of the Exchange, kept for the properties only
  pre,                \* Message Store and message_count just before the
                      \* send, and the text sent
  outcome,            \* how the last Exchange resolved
  settled,            \* whether handleSend's promise resolved or rejected
  received,           \* texts of the ContentDelta events received, in order
  lastStart,          \* role and id of the last MessageStart event received
  doneSeen,           \* a [DONE] frame was received
  readAfterDone,      \* a chunk was read after a [DONE] frame
  malformed,          \* malformed frames among the frames received:
                      \* 0 none, 1 one seen, 2 one seen after a delta,
                      \* 3 a delta received after that
  lastCall,           \* the last handler the user invoked
  wire,               \* the response body as text, and how much of it the
                      \* reader has delivered (SpecDecode)
  panel2,             \* a second panel, open on conversation c2: the
                      \* closure of its handleSend (SpecPanels)
  cancelledAt,        \* where the running handleSend stood when its
                      \* controller was aborted, "none" before that
  deleting,           \* the closure of handleDeleteMessage while its DELETE
                      \* request is pending, and how the last one ended
  loadFor             \* the conversation whose messages the load effect
                      \* is fetching, Null when none is pending

vars == << pc, messages, conversations, currentId, loading, error, inputValue,
           selectedPersona, abortControllerRef, controllers, aborted, exch,
           responseText, uuid, requests, reads, pre, outcome, settled,
           received, lastStart, doneSeen, readAfterDone, malformed, lastCall,
           wire, panel2, cancelledAt, deleting, loadFor >>

(* ---------------------------- helpers ---------------------------------- *)
IsSpace(ch) == ch = " "

RECURSIVE TrimStart(_)
TrimStart(s) ==
  IF s # <<>> /\ IsSpace(Head(s)) THEN TrimStart(Tail(s)) ELSE s

RECURSIVE TrimEnd(_)
TrimEnd(s) ==
  IF s # <<>> /\ IsSpace(s[Len(s)]) THEN TrimEnd(SubSeq(s, 1, Len(s) - 1)) ELSE s

\* String.prototype.trim as used on the input text
TrimIdentity(s) == s
Trim(s) == TrimEnd(TrimStart(s))

RECURSIVE Concat(_)
Concat(ss) == IF ss = <<>> THEN <<>> ELSE Head(ss) \o Concat(Tail(ss))

\* message_count of the panel's conversation in the live shared list
Count == conversations[currentId]

history ==
  << pre, outcome, settled, received, lastStart, doneSeen, readAfterDone,
     malformed >>

NoStart == [role |-> Null, id |-> 0]

\* no response body on the wire
NoWire == [body |-> <<>>, pos |-> 0]

\* no DELETE request was issued yet
NoDelete ==
  [ pc |-> "none", n |-> 0, messageId |-> 0, during |-> 0,
    previousMessages |-> <<>>, previousCount |-> 0, currentId |-> Null,
    conversations |-> [c \in ConvIds |-> 0] ]

\* the second panel with no Exchange running
Panel2Idle(n) ==
  [ pc |-> "Idle", requests |-> n, conversations |-> [c \in ConvIds |-> 0],
    currentMetadata |-> 0 ]

(* ---------------------------- Init ------------------------------------- *)
Init ==
  /\ pc = "Idle"
  /\ messages = <<>>
  /\ currentId = "c1"
  /\ conversations = [c \in ConvIds |-> IF c = "c1" THEN Len(messages) ELSE 1]
  /\ loading = FALSE
  /\ error = Null
  /\ inputValue = <<>>
  /\ selectedPersona = Null
  /\ abortControllerRef = 0
  /\ controllers = 0
  /\ aborted = {}
  /\ exch = NoExchange
  /\ responseText = <<>>
  /\ uuid = 0
  /\ requests = 0
  /\ reads = 0
  /\ pre = [messages |-> <<>>, count |-> 0, text |-> <<>>]
  /\ outcome = "none"
  /\ settled = "none"
  /\ received = <<>>
  /\ lastStart = NoStart
  /\ doneSeen = FALSE
  /\ readAfterDone = FALSE
  /\ malformed = 0
  /\ lastCall = "none"
  /\ wire = NoWire
  /\ panel2 = Panel2Idle(0)
  /\ cancelledAt = "none"
  /\ deleting = NoDelete
  /\ loadFor = Null

(* ---------------------------- typing ----------------------------------- *)
\* onChange of the text box
setInputValue(v) ==
  /\ ~loading
  /\ requests < MaxSends
  /\ v # inputValue
  /\ inputValue' = v
  /\ lastCall' = "type"
  /\ UNCHANGED << pc, messages, conversations, currentId, loading, error,
                  selectedPersona, abortControllerRef, controllers, aborted,
                  exch, responseText, uuid, requests, reads, history, cancelledAt, wire, panel2, deleting, loadFor >>

\* onSelect of the persona picker
setSelectedPersona(p) ==
  /\ ~loading
  /\ requests < MaxSends
  /\ p # selectedPersona
  /\ selectedPersona' = p
  /\ lastCall' = "type"
  /\ UNCHANGED << pc, messages, conversations, currentId, loading, error,
                  inputValue, abortControllerRef, controllers, aborted,
                  exch, responseText, uuid, requests, reads, history, cancelledAt, wire, panel2, deleting, loadFor >>

(* ---------------------------- send ------------------------------------- *)
\* the user message built by handleSend
UserMessage(id, messageText) ==
  [id |-> id, role |-> "user", text |-> messageText, usage |-> NoUsage]

\* the assistant placeholder built by handleSend
AssistantPlaceholder(id) ==
  [id |-> id, role |-> "assistant", text |-> <<>>, usage |-> NoUsage]

\* messageCountDelta of handleSend
MessageCountDeltaTwo(messageText) == 2
MessageCountDelta(messageText) ==
  (IF Trim(messageText) # <<>> THEN 1 ELSE 0) + 1

\* the guard of MessageInput.handleSend
InputAcceptsSendUnguarded ==
  Trim(inputValue) # <<>> \/ selectedPersona # Null
InputAcceptsSend ==
  ~loading /\ (Trim(inputValue) # <<>> \/ selectedPersona # Null)

\* the early return of Conversation.handleSend
SendReturnsEarly(messageText, targetPersonaId) ==
  currentId = Null \/ (Trim(messageText) = <<>> /\ targetPersonaId = Null)

\* Conversation.handleSend up to its first await: the optimistic update and
\* the request
SendStart(messageText, targetPersonaId, controller) ==
  LET userMessageId == uuid + 1
      assistantMessageId == uuid + 2
      hasUser == Trim(messageText) # <<>>
      appended == (IF hasUser THEN << UserMessage(userMessageId, messageText) >>
                              ELSE <<>>)
                  \o << AssistantPlaceholder(assistantMessageId) >>
      updatedCount == Count + MessageCountDelta(messageText)
  IN /\ loading' = TRUE
     /\ error' = Null
     /\ uuid' = uuid + 2
     /\ messages' = messages \o appended
     /\ conversations' = [conversations EXCEPT ![currentId] = updatedCount]
     /\ exch' = [ userMessageId |-> userMessageId,
                  assistantMessageId |-> assistantMessageId,
                  userMessage |-> hasUser,
                  messageText |-> messageText,
                  abortController |-> controller,
                  currentId |-> currentId,
                  conversations |-> conversations,
                  currentMetadata |-> Count ]
     /\ responseText' = <<>>
     /\ requests' = requests + 1
     /\ pc' = "Sending"
     /\ pre' = [messages |-> messages, count |-> Count, text |-> messageText]
     /\ outcome' = "none"
     /\ settled' = "none"
     /\ received' = <<>>
     /\ lastStart' = NoStart
     /\ doneSeen' = FALSE
     /\ readAfterDone' = FALSE
     /\ malformed' = 0
     /\ cancelledAt' = "none"

\* MessageInput.handleSend: the send button or the Enter key
handleSend ==
  /\ lastCall' = "send"
  /\ IF InputAcceptsSend
       THEN LET message == Trim(inputValue)
                controller == controllers + 1
            IN IF SendReturnsEarly(message, selectedPersona)
                 THEN \* onSend resolves at once: the input is cleared and the
                      \* controller dropped
                      /\ controllers' = controller
                      /\ abortControllerRef' = 0
                      /\ inputValue' = <<>>
                      /\ UNCHANGED << pc, messages, conversations, loading,
                                      error, exch, responseText, uuid,
                                      requests, history, cancelledAt >>
                 ELSE /\ requests < MaxSends
                      /\ controllers' = controller
                      /\ abortControllerRef' = controller
                      /\ SendStart(message, selectedPersona, controller)
                      /\ UNCHANGED inputValue
       ELSE UNCHANGED << pc, messages, conversations, loading, error,
                         inputValue, abortControllerRef, controllers, exch,
                         responseText, uuid, requests, history, cancelledAt >>
  /\ UNCHANGED << currentId, selectedPersona, aborted, reads, wire, panel2, deleting, loadFor >>

\* MessageInput.handleCancel: the cancel button
handleCancelDropsController ==
  /\ lastCall' = "cancel"
  /\ IF abortControllerRef # 0
       THEN /\ abortControllerRef' = 0
            /\ cancelledAt' = pc
            /\ UNCHANGED aborted
       ELSE UNCHANGED << aborted, abortControllerRef, cancelledAt >>
  /\ UNCHANGED << pc, messages, conversations, currentId, loading, error,
                  inputValue, selectedPersona, controllers, exch,
                  responseText, uuid, requests, reads, history, wire, panel2,
                  deleting, loadFor >>
handleCancel ==
  /\ lastCall' = "cancel"
  /\ IF abortControllerRef # 0
       THEN /\ aborted' = aborted \cup {abortControllerRef}
            /\ abortControllerRef' = 0
            /\ cancelledAt' = pc
       ELSE UNCHANGED << aborted, abortControllerRef, cancelledAt >>
  /\ UNCHANGED << pc, messages, conversations, currentId, loading, error,
                  inputValue, selectedPersona, controllers, exch,
                  responseText, uuid, requests, reads, history, wire, panel2, deleting, loadFor >>

\* the signal handed to the running handleSend is aborted
SignalAborted == exch.abortController \in aborted

(* ---------------------------- resolution ------------------------------- *)
FailedToSend == "Failed to send message. Please try again."

\* the finally block of Conversation.handleSend, the onSend wrapper and the
\* rest of MessageInput.handleSend, which run without interruption
ResolveKeepsController(kind, how) ==
  /\ pc' = "Idle"
  /\ loading' = FALSE
  /\ inputValue' = <<>>
  /\ UNCHANGED abortControllerRef
  /\ exch' = NoExchange
  /\ responseText' = <<>>
  /\ outcome' = kind
  /\ settled' = how
  /\ received' = <<>>
  /\ lastStart' = NoStart
  /\ doneSeen' = FALSE
  /\ readAfterDone' = FALSE
  /\ malformed' = 0
  /\ cancelledAt' = "none"
ResolveKeepsLoading(kind, how) ==
  /\ pc' = "Idle"
  /\ UNCHANGED loading
  /\ inputValue' = <<>>
  /\ abortControllerRef' = 0
  /\ exch' = NoExchange
  /\ responseText' = <<>>
  /\ outcome' = kind
  /\ settled' = how
  /\ received' = <<>>
  /\ lastStart' = NoStart
  /\ doneSeen' = FALSE
  /\ readAfterDone' = FALSE
  /\ malformed' = 0
  /\ cancelledAt' = "none"
Resolve(kind, how) ==
  /\ pc' = "Idle"
  /\ loading' = FALSE
  /\ inputValue' = <<>>
  /\ abortControllerRef' = 0
  /\ exch' = NoExchange
  /\ responseText' = <<>>
  /\ outcome' = kind
  /\ settled' = how
  /\ received' = <<>>
  /\ lastStart' = NoStart
  /\ doneSeen' = FALSE
  /\ readAfterDone' = FALSE
  /\ malformed' = 0
  /\ cancelledAt' = "none"

\* the outer catch of Conversation.handleSend
OuterCatch(kind) ==
  /\ error' = FailedToSend
  /\ Resolve(kind, "rejected")

\* App.handleConversationsChange: the shared list is replaced by the given one
handleConversationsChange(metadata) == conversations' = metadata

(* ---------------------------- request ---------------------------------- *)
\* the filter of the non-2xx branch
RollbackKeepsAssistant(m) ==
  ~(exch.userMessage /\ m.role = "user" /\ m.id = exch.userMessageId)
RollbackKeeps(m) ==
  /\ ~(m.role = "assistant" /\ m.id = exch.assistantMessageId)
  /\ ~(exch.userMessage /\ m.role = "user" /\ m.id = exch.userMessageId)

\* fetch resolves with a non-2xx response
FetchNotOk ==
  /\ pc = "Sending"
  /\ ~SignalAborted
  /\ messages' = SelectSeq(messages, RollbackKeeps)
  /\ handleConversationsChange(
       [exch.conversations EXCEPT ![exch.currentId] = exch.currentMetadata])
  /\ OuterCatch("http_error")
  /\ UNCHANGED << currentId, selectedPersona, controllers, aborted, uuid,
                  requests, reads, pre, lastCall,
                  wire, panel2, deleting, loadFor >>

\* fetch rejects (network error), or the response has no body to read
FetchFails(kind) ==
  /\ pc = "Sending"
  /\ ~SignalAborted
  /\ OuterCatch(kind)
  /\ UNCHANGED << messages, conversations, currentId, selectedPersona,
                  controllers, aborted, uuid, requests, reads, pre, lastCall,
                  wire, panel2, deleting, loadFor >>

\* fetch rejects with AbortError: the signal was aborted before the response
FetchAborted ==
  /\ pc = "Sending"
  /\ SignalAborted
  /\ OuterCatch("abort_fetch")
  /\ UNCHANGED << messages, conversations, currentId, selectedPersona,
                  controllers, aborted, uuid, requests, reads, pre, lastCall,
                  wire, panel2, deleting, loadFor >>

\* fetch resolves with a 2xx response and a readable body
FetchOk ==
  /\ pc = "Sending"
  /\ ~SignalAborted
  /\ pc' = "Streaming"
  /\ UNCHANGED << messages, conversations, currentId, loading, error,
                  inputValue, selectedPersona, abortControllerRef, controllers,
                  aborted, exch, responseText, uuid, requests, reads, history, cancelledAt,
                  lastCall, wire, panel2, deleting, loadFor >>

(* ---------------------------- stream ----------------------------------- *)
\* A line of a chunk, after chunk.split("\n"), by what the loop sees in it:
\*   noise          no "data: " prefix
\*   done           data: [DONE]
\*   nonjson        payload that does not start with "{"
\*   badjson        payload on which JSON.parse throws
\*   start_bad      message_start without a message object (reading its role
\*                  throws inside the try)
\*   message_start  message_start with role, id and usage
\*   delta          content_block_delta with a text_delta and a string text
\*   delta_other    content_block_delta that is not a text delta
\*   other          any other event type
Line(kind, role, id, text) ==
  [kind |-> kind, role |-> role, id |-> id, usage |-> StreamUsage, text |-> text]

PlainKinds == {"noise", "done", "nonjson", "badjson", "start_bad",
               "delta_other", "other"}

\* the lines a response to the running Exchange may carry
Lines ==
  {Line(k, Null, 0, <<>>) : k \in PlainKinds}
  \cup {Line("message_start", r, i, <<>>) :
          r \in {"user", "assistant"}, i \in {exch.assistantMessageId, ServerId}}
  \cup {Line("delta", Null, 0, t) : t \in DeltaTexts}

\* the lines that occur in chunks of several lines
CoreLines ==
  {Line(k, Null, 0, <<>>) : k \in {"done", "badjson"}}
  \cup {Line("message_start", "assistant", ServerId, <<>>)}
  \cup {Line("delta", Null, 0, t) : t \in DeltaTexts}

\* a chunk is the sequence of its lines: any single line, or several lines
Chunks ==
  {<< l >> : l \in Lines} \cup UNION {[1..n -> CoreLines] : n \in 2..MaxLines}

\* chunks of one frame: the server flushes after every event
FrameChunks ==
  { << Line("message_start", r, ServerId, <<>>) >> : r \in {"user", "assistant"} }
  \cup { << Line("delta", Null, 0, <<"a">>) >>, << Line("done", Null, 0, <<>>) >> }

\* setMessages updater of message_start: id and usage of the last message
SetIdAndUsage(msgs, line) ==
  IF msgs # <<>> /\ msgs[Len(msgs)].role = "assistant"
    THEN [msgs EXCEPT ![Len(msgs)].id = line.id, ![Len(msgs)].usage = line.usage]
    ELSE msgs

\* setMessages updater of content_block_delta: content of the last message
SetContentDeltaOnly(msgs, text, delta) ==
  IF msgs # <<>> /\ msgs[Len(msgs)].role = "assistant"
    THEN [msgs EXCEPT ![Len(msgs)].text = delta]
    ELSE msgs
SetContent(msgs, text, delta) ==
  IF msgs # <<>> /\ msgs[Len(msgs)].role = "assistant"
    THEN [msgs EXCEPT ![Len(msgs)].text = text]
    ELSE msgs

\* the for loop over the lines of one chunk
RECURSIVE ProcessLinesStopOnMalformed(_, _, _)
ProcessLinesStopOnMalformed(lines, msgs, text) ==
  IF lines = <<>>
    THEN [messages |-> msgs, responseText |-> text]
    ELSE LET line == Head(lines)
             rest == Tail(lines)
         IN CASE line.kind = "noise" ->
                   ProcessLinesStopOnMalformed(rest, msgs, text)
              [] line.kind \in {"done", "nonjson", "badjson", "start_bad"} ->
                   [messages |-> msgs, responseText |-> text]
              [] line.kind = "message_start" ->
                   IF line.role = "user" /\ exch.userMessage
                     THEN ProcessLinesStopOnMalformed(rest, msgs, text)
                     ELSE ProcessLinesStopOnMalformed(
                            rest, SetIdAndUsage(msgs, line), text)
              [] line.kind = "delta" ->
                   ProcessLinesStopOnMalformed(
                     rest, SetContent(msgs, text \o line.text, line.text),
                     text \o line.text)
              [] OTHER -> ProcessLinesStopOnMalformed(rest, msgs, text)
RECURSIVE ProcessLinesAnyUserStart(_, _, _)
ProcessLinesAnyUserStart(lines, msgs, text) ==
  IF lines = <<>>
    THEN [messages |-> msgs, responseText |-> text]
    ELSE LET line == Head(lines)
             rest == Tail(lines)
         IN CASE line.kind = "noise" -> ProcessLinesAnyUserStart(rest, msgs, text)
              [] line.kind = "done" -> [messages |-> msgs, responseText |-> text]
              [] line.kind \in {"nonjson", "badjson", "start_bad"} ->
                   ProcessLinesAnyUserStart(rest, msgs, text)
              [] line.kind = "message_start" ->
                   ProcessLinesAnyUserStart(rest, SetIdAndUsage(msgs, line), text)
              [] line.kind = "delta" ->
                   ProcessLinesAnyUserStart(rest,
                                SetContent(msgs, text \o line.text, line.text),
                                text \o line.text)
              [] OTHER -> ProcessLinesAnyUserStart(rest, msgs, text)
RECURSIVE ProcessLinesAnyDelta(_, _, _)
ProcessLinesAnyDelta(lines, msgs, text) ==
  IF lines = <<>>
    THEN [messages |-> msgs, responseText |-> text]
    ELSE LET line == Head(lines)
             rest == Tail(lines)
         IN CASE line.kind = "noise" -> ProcessLinesAnyDelta(rest, msgs, text)
              [] line.kind = "done" -> [messages |-> msgs, responseText |-> text]
              [] line.kind \in {"nonjson", "badjson", "start_bad"} ->
                   ProcessLinesAnyDelta(rest, msgs, text)
              [] line.kind = "message_start" ->
                   IF line.role = "user" /\ exch.userMessage
                     THEN ProcessLinesAnyDelta(rest, msgs, text)
                     ELSE ProcessLinesAnyDelta(rest, SetIdAndUsage(msgs, line), text)
              [] line.kind = "delta" ->
                   ProcessLinesAnyDelta(rest,
                                SetContent(msgs, text \o line.text, line.text),
                                text \o line.text)
              [] line.kind = "delta_other" ->
                   ProcessLinesAnyDelta(
                     rest, SetContent(msgs, text \o <<"undefined">>, <<>>),
                     text \o <<"undefined">>)
              [] OTHER -> ProcessLinesAnyDelta(rest, msgs, text)
RECURSIVE ProcessLines(_, _, _)
ProcessLines(lines, msgs, text) ==
  IF lines = <<>>
    THEN [messages |-> msgs, responseText |-> text]
    ELSE LET line == Head(lines)
             rest == Tail(lines)
         IN CASE line.kind = "noise" -> ProcessLines(rest, msgs, text)
              [] line.kind = "done" -> [messages |-> msgs, responseText |-> text]
              [] line.kind \in {"nonjson", "badjson", "start_bad"} ->
                   ProcessLines(rest, msgs, text)
              [] line.kind = "message_start" ->
                   IF line.role = "user" /\ exch.userMessage
                     THEN ProcessLines(rest, msgs, text)
                     ELSE ProcessLines(rest, SetIdAndUsage(msgs, line), text)
              [] line.kind = "delta" ->
                   ProcessLines(rest,
                                SetContent(msgs, text \o line.text, line.text),
                                text \o line.text)
              [] OTHER -> ProcessLines(rest, msgs, text)

\* ---- what the frames of a chunk mean (for the history variables) ----
\* position of the first [DONE] line, or Len + 1
FirstDone(lines) ==
  LET ds == {i \in 1..Len(lines) : lines[i].kind = "done"}
  IN IF ds = {} THEN Len(lines) + 1 ELSE CHOOSE i \in ds : \A j \in ds : i <= j

BeforeDone(lines) == SubSeq(lines, 1, FirstDone(lines) - 1)

IsDelta(line) == line.kind = "delta"
IsStart(line) == line.kind = "message_start"

DeltaTextsOf(lines) ==
  LET ds == SelectSeq(lines, IsDelta) IN [i \in 1..Len(ds) |-> ds[i].text]

LastStartOf(lines, before) ==
  LET ss == SelectSeq(lines, IsStart)
  IN IF ss = <<>> THEN before
     ELSE [role |-> ss[Len(ss)].role, id |-> ss[Len(ss)].id]

\* a frame the inner try skips: its payload is not JSON, JSON.parse throws
\* on it, or it lacks the fields its type needs
IsMalformed(line) == line.kind \in {"nonjson", "badjson", "start_bad"}

\* the malformed-frame history after the given lines
RECURSIVE MalformedAfter(_, _, _)
MalformedAfter(lines, m, hadDelta) ==
  IF lines = <<>>
    THEN m
    ELSE LET line == Head(lines)
         IN CASE IsMalformed(line) ->
                   MalformedAfter(Tail(lines),
                                  IF m = 3 THEN 3 ELSE IF hadDelta THEN 2 ELSE 1,
                                  hadDelta)
              [] IsDelta(line) ->
                   MalformedAfter(Tail(lines), IF m >= 2 THEN 3 ELSE m, TRUE)
              [] OTHER -> MalformedAfter(Tail(lines), m, hadDelta)

\* reader.read() resolves with a chunk
ReadChunk(chunk) ==
  /\ pc = "Streaming"
  /\ ~SignalAborted
  /\ Len(responseText) + Len(SelectSeq(chunk, IsDelta)) <= MaxText
  /\ LET r == ProcessLines(chunk, messages, responseText)
     IN /\ messages' = r.messages
        /\ responseText' = r.responseText
  /\ reads' = reads + 1
  /\ received' = IF doneSeen THEN received
                 ELSE received \o DeltaTextsOf(BeforeDone(chunk))
  /\ lastStart' = IF doneSeen THEN lastStart
                  ELSE LastStartOf(BeforeDone(chunk), lastStart)
  /\ doneSeen' = (doneSeen \/ FirstDone(chunk) <= Len(chunk))
  /\ readAfterDone' = (readAfterDone \/ doneSeen)
  /\ malformed' = IF doneSeen THEN malformed
                  ELSE MalformedAfter(BeforeDone(chunk), malformed,
                                      received # <<>>)
  /\ UNCHANGED << pc, conversations, currentId, loading, error, inputValue,
                  selectedPersona, abortControllerRef, controllers, aborted,
                  exch, uuid, requests, pre, outcome, settled, lastCall,
                  panel2, cancelledAt, deleting, loadFor >>

\* reader.read() resolves with done: the body has ended
ReadDone ==
  /\ pc = "Streaming"
  /\ pc' = "Reconciling"
  /\ UNCHANGED << messages, conversations, currentId, loading, error,
                  inputValue, selectedPersona, abortControllerRef, controllers,
                  aborted, exch, responseText, uuid, requests, reads, history, cancelledAt,
                  lastCall, wire, panel2, deleting, loadFor >>

\* the filter of the AbortError branch
AbortKeeps(m) == m.id # exch.assistantMessageId

\* message_count written by the AbortError branch
AbortCount == exch.currentMetadata - 1

\* reader.read() rejects with AbortError: the signal was aborted
ReadAbortedFallsThrough ==
  /\ pc = "Streaming"
  /\ SignalAborted
  /\ messages' = SelectSeq(messages, AbortKeeps)
  /\ handleConversationsChange(
       [exch.conversations EXCEPT ![exch.currentId] = AbortCount])
  /\ pc' = "Reconciling"
  /\ UNCHANGED << currentId, loading, error, inputValue, selectedPersona,
                  abortControllerRef, controllers, aborted, exch, responseText,
                  uuid, requests, reads, history, cancelledAt, lastCall, wire,
                  panel2, deleting, loadFor >>
ReadAborted ==
  /\ pc = "Streaming"
  /\ SignalAborted
  /\ messages' = SelectSeq(messages, AbortKeeps)
  /\ handleConversationsChange(
       [exch.conversations EXCEPT ![exch.currentId] = AbortCount])
  /\ Resolve("abort_stream", "resolved")
  /\ UNCHANGED << currentId, error, selectedPersona, controllers, aborted,
                  uuid, requests, reads, pre, lastCall,
                  wire, panel2, deleting, loadFor >>

\* reader.read() rejects with another error: rethrown to the outer catch
ReadError ==
  /\ pc = "Streaming"
  /\ ~SignalAborted
  /\ OuterCatch("stream_error")
  /\ UNCHANGED << messages, conversations, currentId, selectedPersona,
                  controllers, aborted, uuid, requests, reads, pre, lastCall,
                  wire, panel2, deleting, loadFor >>

(* ---------------------------- reconciliation --------------------------- *)
\* setMessages updater of the reconciliation: usage of the last message
SetFinalUsage(msgs, finalId) ==
  IF msgs # <<>> /\ msgs[Len(msgs)].role = "assistant"
                 /\ msgs[Len(msgs)].id = finalId
    THEN [msgs EXCEPT ![Len(msgs)].usage = FinalUsage]
    ELSE msgs

\* the message list is fetched; serverIds are the ids of its messages
ReconcileOkWithSignal(serverIds) ==
  /\ pc = "Reconciling"
  /\ IF SignalAborted
       THEN /\ messages' = SelectSeq(messages, AbortKeeps)
            /\ handleConversationsChange(
                 [exch.conversations EXCEPT ![exch.currentId] = AbortCount])
            /\ Resolve("abort_stream", "resolved")
       ELSE /\ messages' = IF exch.assistantMessageId \in serverIds
                              THEN SetFinalUsage(messages, exch.assistantMessageId)
                              ELSE messages
            /\ UNCHANGED conversations
            /\ Resolve("success", "resolved")
  /\ UNCHANGED << currentId, error, selectedPersona, controllers, aborted,
                  uuid, requests, reads, pre, lastCall, wire, panel2, deleting,
                  loadFor >>
ReconcileOk(serverIds) ==
  /\ pc = "Reconciling"
  /\ messages' = IF exch.assistantMessageId \in serverIds
                   THEN SetFinalUsage(messages, exch.assistantMessageId)
                   ELSE messages
  /\ Resolve("success", "resolved")
  /\ UNCHANGED << conversations, currentId, error, selectedPersona,
                  controllers, aborted, uuid, requests, reads, pre, lastCall,
                  wire, panel2, deleting, loadFor >>

\* the fetch of the message list fails: thrown to the outer catch
ReconcileFails ==
  /\ pc = "Reconciling"
  /\ OuterCatch("reconcile_error")
  /\ UNCHANGED << messages, conversations, currentId, selectedPersona,
                  controllers, aborted, uuid, requests, reads, pre, lastCall,
                  wire, panel2, deleting, loadFor >>

(* ---------------------------- specification ---------------------------- *)
Next ==
  \/ \E v \in Texts : setInputValue(v)
  \/ \E p \in Personas : setSelectedPersona(p)
  \/ handleSend
  \/ handleCancel
  \/ FetchNotOk
  \/ FetchFails("network_error")
  \/ FetchFails("no_body")
  \/ FetchAborted
  \/ FetchOk
  \/ reads < MaxReads /\ UNCHANGED wire
     /\ \E chunk \in FrameChunks : ReadChunk(chunk)
  \/ ReadDone
  \/ ReadAborted
  \/ ReadError
  \/ \E serverIds \in SUBSET {exch.assistantMessageId, ServerId} :
       ReconcileOk(serverIds)
  \/ ReconcileFails

Spec == Init /\ [][Next]_vars

\* a network operation of the running Exchange completes or fails: the
\* request, the end of the body, or the fetch of the message list
Completes ==
  \/ FetchNotOk
  \/ FetchFails("network_error")
  \/ FetchFails("no_body")
  \/ FetchAborted
  \/ FetchOk
  \/ ReadDone
  \/ ReadAborted
  \/ ReadError
  \/ \E serverIds \in SUBSET {exch.assistantMessageId, ServerId} :
       ReconcileOk(serverIds)
  \/ ReconcileFails

\* the lifecycle with one text to type
NextLive ==
  \/ setInputValue(<<"h">>)
  \/ \E p \in Personas : setSelectedPersona(p)
  \/ handleSend
  \/ handleCancel
  \/ reads < MaxReads /\ UNCHANGED wire
     /\ \E chunk \in FrameChunks : ReadChunk(chunk)
  \/ Completes

\* every pending network operation eventually completes or fails
SpecLive == Init /\ [][NextLive]_vars /\ WF_vars(Completes)

(* ---------------------------- one response stream ---------------------- *)
\* The stream of one Exchange with every kind of frame and every chunking:
\* the states right after a send of messageText was answered with a 2xx
\* response.
StreamingAfter(prior, messageText) ==
  LET hasUser == Trim(messageText) # <<>>
      appended == (IF hasUser THEN << UserMessage(1, messageText) >> ELSE <<>>)
                  \o << AssistantPlaceholder(2) >>
      before == [c \in ConvIds |-> IF c = "c1" THEN Len(prior) ELSE 1]
  IN /\ pc = "Streaming"
     /\ messages = prior \o appended
     /\ currentId = "c1"
     /\ conversations = [before EXCEPT !["c1"] = @ + MessageCountDelta(messageText)]
     /\ loading = TRUE
     /\ error = Null
     /\ inputValue = messageText
     /\ selectedPersona = (IF hasUser THEN Null ELSE "c2")
     /\ abortControllerRef = 1
     /\ controllers = 1
     /\ aborted = {}
     /\ exch = [ userMessageId |-> 1, assistantMessageId |-> 2,
                 userMessage |-> hasUser, messageText |-> messageText,
                 abortController |-> 1, currentId |-> "c1",
                 conversations |-> before, currentMetadata |-> Len(prior) ]
     /\ responseText = <<>>
     /\ uuid = 2
     /\ requests = 1
     /\ reads = 0
     /\ pre = [messages |-> prior, count |-> Len(prior), text |-> messageText]
     /\ outcome = "none"
     /\ settled = "none"
     /\ received = <<>>
     /\ lastStart = NoStart
     /\ doneSeen = FALSE
     /\ readAfterDone = FALSE
     /\ malformed = 0
     /\ lastCall = "send"
     /\ panel2 = Panel2Idle(0)
     /\ cancelledAt = "none"
     /\ deleting = NoDelete
     /\ loadFor = Null

InitStream ==
  \E messageText \in {<<>>, <<"h">>} :
    StreamingAfter(PriorMessages, messageText) /\ wire = NoWire

NextStream ==
  \/ handleCancel
  \/ reads < MaxChunks /\ UNCHANGED wire
     /\ \E chunk \in Chunks : ReadChunk(chunk)
  \/ ReadDone
  \/ ReadAborted
  \/ ReadError
  \/ \E serverIds \in SUBSET {exch.assistantMessageId, ServerId} :
       ReconcileOk(serverIds)
  \/ ReconcileFails

SpecStream == InitStream /\ [][NextStream]_vars

(* ---------------------------- frame decoding --------------------------- *)
\* The response body as text, a sequence of characters.  The JSON text of an
\* event is abbreviated to three characters, "{", a letter and "}": the
\* letters a and b stand for a content_block_delta whose text is that
\* letter, S for the message_start of the assistant message with the
\* server's id.  JSON.parse accepts such a text and throws on any part of it.
MaxFrames == 2

DataPrefix == <<"d", "a", "t", "a", ":", " ">>
DoneText == <<"[", "D", "O", "N", "E", "]">>
EventLetters == {"a", "b", "S"}

\* one frame of the response: "data: " + payload + "\n"
Frame(payload) == DataPrefix \o payload \o <<"\n">>

\* the bodies the server sends: up to MaxFrames events, then [DONE]
Bodies ==
  { Concat([i \in 1..Len(es) |-> Frame(<<"{", es[i], "}">>)]) \o Frame(DoneText) :
      es \in UNION {[1..n -> EventLetters] : n \in 1..MaxFrames} }

\* chunk.split("\n")
RECURSIVE Split(_)
Split(text) ==
  LET nl == {i \in 1..Len(text) : text[i] = "\n"}
  IN IF nl = {}
       THEN << text >>
       ELSE LET i == CHOOSE k \in nl : \A j \in nl : k <= j
            IN << SubSeq(text, 1, i - 1) >> \o Split(SubSeq(text, i + 1, Len(text)))

\* String.prototype.startsWith
StartsWith(text, prefix) ==
  /\ Len(text) >= Len(prefix)
  /\ SubSeq(text, 1, Len(prefix)) = prefix

\* JSON.parse of a payload, and the event the switch sees in it
ParseEvent(data) ==
  IF Len(data) = 3 /\ data[1] = "{" /\ data[3] = "}" /\ data[2] \in EventLetters
    THEN IF data[2] = "S"
           THEN Line("message_start", "assistant", ServerId, <<>>)
           ELSE Line("delta", Null, 0, << data[2] >>)
    ELSE Line("badjson", Null, 0, <<>>)

\* what the loop sees in one line of a chunk
ParseLine(line) ==
  IF ~StartsWith(line, DataPrefix)
    THEN Line("noise", Null, 0, <<>>)
    ELSE LET data == SubSeq(line, Len(DataPrefix) + 1, Len(line))
         IN IF data = DoneText
              THEN Line("done", Null, 0, <<>>)
              ELSE IF ~StartsWith(Trim(data), <<"{">>)
                     THEN Line("nonjson", Null, 0, <<>>)
                     ELSE ParseEvent(Trim(data))

\* the lines of a chunk of text, as the for loop meets them
Decode(text) ==
  LET lines == Split(text) IN [i \in 1..Len(lines) |-> ParseLine(lines[i])]

\* reader.read() resolves with the next n characters of the body
ReadWire(n) ==
  /\ ReadChunk(Decode(SubSeq(wire.body, wire.pos + 1, wire.pos + n)))
  /\ wire' = [wire EXCEPT !.pos = wire.pos + n]

\* reader.read() resolves with done once the whole body was delivered
WireDone == wire.pos = Len(wire.body) /\ ReadDone

InitDecode ==
  \E body \in Bodies :
    StreamingAfter(PriorMessages, <<"h">>) /\ wire = [body |-> body, pos |-> 0]

NextDecode ==
  \/ reads < MaxChunks
     /\ \E n \in 1..(Len(wire.body) - wire.pos) : ReadWire(n)
  \/ WireDone

SpecDecode == InitDecode /\ [][NextDecode]_vars

(* ---------------------------- delete and switch ------------------------ *)
\* Deleting a message and switching the panel to another conversation, both
\* possible while an Exchange is in flight: neither control looks at loading.
MaxDeletes == 1

\* the messages the server holds for the other conversation
OtherMessages ==
  << [id |-> 811, role |-> "assistant", text |-> <<"b">>, usage |-> FinalUsage] >>

\* what the GET of a conversation's messages returns
ServerMessages(convId) ==
  IF convId = "c2" THEN OtherMessages ELSE PriorMessages

Max(a, b) == IF a >= b THEN a ELSE b

EditFrame ==
  UNCHANGED << pc, loading, inputValue, selectedPersona, abortControllerRef,
               controllers, aborted, exch, responseText, uuid, requests, reads,
               history, cancelledAt, lastCall, wire, panel2 >>

\* handleDeleteMessage up to the DELETE request: the optimistic update
handleDeleteMessage(messageId) ==
  /\ deleting.pc # "pending"
  /\ deleting.n < MaxDeletes
  /\ \E i \in 1..Len(messages) : messages[i].id = messageId
  /\ LET keeps(msg) == msg.id # messageId
     IN messages' = SelectSeq(messages, keeps)
  /\ handleConversationsChange(
       [conversations EXCEPT ![currentId] = Max(0, conversations[currentId] - 1)])
  /\ deleting' = [ pc |-> "pending", n |-> deleting.n + 1,
                   messageId |-> messageId,
                   during |-> IF pc = "Idle" THEN 0 ELSE requests,
                   previousMessages |-> messages,
                   previousCount |-> conversations[currentId],
                   currentId |-> currentId,
                   conversations |-> conversations ]
  /\ UNCHANGED << currentId, error, loadFor >>
  /\ EditFrame

\* the DELETE request succeeds
DeleteOk ==
  /\ deleting.pc = "pending"
  /\ deleting' = [deleting EXCEPT !.pc = "ok"]
  /\ UNCHANGED << messages, conversations, currentId, error, loadFor >>
  /\ EditFrame

\* the DELETE request fails: the catch restores what the handler captured
DeleteFails ==
  /\ deleting.pc = "pending"
  /\ error' = "Failed to delete message"
  /\ messages' = deleting.previousMessages
  /\ handleConversationsChange(
       [deleting.conversations EXCEPT
          ![deleting.currentId] = deleting.previousCount])
  /\ deleting' = [deleting EXCEPT !.pc = "failed"]
  /\ UNCHANGED << currentId, loadFor >>
  /\ EditFrame

\* handleConversationChange: the panel is switched to another conversation;
\* the effect on currentId then fetches its messages
handleConversationChange(newId) ==
  /\ newId # currentId
  /\ messages' = <<>>
  /\ currentId' = newId
  /\ loadFor' = newId
  /\ UNCHANGED << conversations, error, deleting >>
  /\ EditFrame

\* the messages of the conversation arrive
LoadMessages ==
  /\ loadFor # Null
  /\ messages' = ServerMessages(loadFor)
  /\ loadFor' = Null
  /\ UNCHANGED << conversations, currentId, error, deleting >>
  /\ EditFrame

\* the panel shows a conversation with two messages; a text is typed or a
\* persona is selected
InitEdit ==
  /\ pc = "Idle"
  /\ messages = PriorMessages
  /\ currentId = "c1"
  /\ conversations = [c \in ConvIds |-> IF c = "c1" THEN Len(PriorMessages) ELSE 1]
  /\ loading = FALSE
  /\ error = Null
  /\ \/ inputValue = <<"h">> /\ selectedPersona = Null
     \/ inputValue = <<>> /\ selectedPersona = "c2"
  /\ abortControllerRef = 0
  /\ controllers = 0
  /\ aborted = {}
  /\ exch = NoExchange
  /\ responseText = <<>>
  /\ uuid = 0
  /\ requests = 0
  /\ reads = 0
  /\ pre = [messages |-> <<>>, count |-> 0, text |-> <<>>]
  /\ outcome = "none"
  /\ settled = "none"
  /\ received = <<>>
  /\ lastStart = NoStart
  /\ doneSeen = FALSE
  /\ readAfterDone = FALSE
  /\ malformed = 0
  /\ lastCall = "none"
  /\ wire = NoWire
  /\ panel2 = Panel2Idle(0)
  /\ cancelledAt = "none"
  /\ deleting = NoDelete
  /\ loadFor = Null

NextEdit ==
  \/ handleSend
  \/ handleCancel
  \/ FetchNotOk
  \/ FetchOk
  \/ reads < MaxReads /\ UNCHANGED wire
     /\ \E chunk \in FrameChunks : ReadChunk(chunk)
  \/ ReadDone
  \/ ReadAborted
  \/ ReconcileOk({})
  \/ \E messageId \in {801, 802, 1, 2} : handleDeleteMessage(messageId)
  \/ DeleteOk
  \/ DeleteFails
  \/ handleConversationChange("c2")
  \/ LoadMessages

SpecEdit == InitEdit /\ [][NextEdit]_vars

(* ---------------------------- second panel ----------------------------- *)
\* A second Conversation panel of the same App, open on conversation c2.
\* It shares the conversations list and onConversationsChange with the
\* first panel; of its Exchange only what touches that list is kept: the
\* list and the count its handleSend captured, and where the send stands.
Panel2Frame ==
  UNCHANGED << pc, messages, currentId, loading, error, inputValue,
               selectedPersona, abortControllerRef, controllers, aborted, exch,
               responseText, uuid, requests, reads, history, cancelledAt, lastCall, wire,
               deleting, loadFor >>

\* handleSend of the second panel, up to the fetch
Panel2Send(messageText) ==
  /\ panel2.pc = "Idle"
  /\ panel2.requests < MaxSends
  /\ handleConversationsChange(
       [conversations EXCEPT
          !["c2"] = conversations["c2"] + MessageCountDelta(messageText)])
  /\ panel2' = [ pc |-> "Sending", requests |-> panel2.requests + 1,
                 conversations |-> conversations,
                 currentMetadata |-> conversations["c2"] ]
  /\ Panel2Frame

\* its fetch resolves with a non-2xx response
Panel2FetchNotOk ==
  /\ panel2.pc = "Sending"
  /\ handleConversationsChange(
       [panel2.conversations EXCEPT !["c2"] = panel2.currentMetadata])
  /\ panel2' = Panel2Idle(panel2.requests)
  /\ Panel2Frame

\* its fetch resolves with a 2xx response
Panel2FetchOk ==
  /\ panel2.pc = "Sending"
  /\ panel2' = [panel2 EXCEPT !.pc = "Streaming"]
  /\ UNCHANGED conversations
  /\ Panel2Frame

\* its reader.read() rejects with AbortError
Panel2ReadAborted ==
  /\ panel2.pc = "Streaming"
  /\ handleConversationsChange(
       [panel2.conversations EXCEPT !["c2"] = panel2.currentMetadata - 1])
  /\ panel2' = Panel2Idle(panel2.requests)
  /\ Panel2Frame

\* its Exchange ends in any other way: the list is not written
Panel2Settles ==
  /\ panel2.pc \in {"Sending", "Streaming"}
  /\ panel2' = Panel2Idle(panel2.requests)
  /\ UNCHANGED conversations
  /\ Panel2Frame

NextPanels ==
  \/ setInputValue(<<"h">>)
  \/ handleSend
  \/ handleCancel
  \/ FetchNotOk
  \/ FetchOk
  \/ ReadAborted
  \/ ReadDone
  \/ ReconcileOk({})
  \/ \E messageText \in {<<>>, <<"h">>} : Panel2Send(messageText)
  \/ Panel2FetchNotOk
  \/ Panel2FetchOk
  \/ Panel2ReadAborted
  \/ Panel2Settles

SpecPanels == Init /\ [][NextPanels]_vars

(* ======================================================================= *)
(* Properties                                                              *)
(* ======================================================================= *)
\* the text is empty or whitespace only
IsBlank(s) == \A i \in 1..Len(s) : s[i] = " "

\* the send appended a user message
UserAppended == ~IsBlank(pre.text)

\* number of messages the send appended
NumAppended == IF UserAppended THEN 2 ELSE 1

\* the Message Store is what it was before the send
StoreAsBefore == messages = pre.messages

\* the Message Store is what it was before the send, followed by the user
\* message of the Exchange if the send appended one
StoreAsBeforePlusUser ==
  LET n == Len(pre.messages)
  IN /\ Len(messages) = n + (NumAppended - 1)
     /\ SubSeq(messages, 1, n) = pre.messages
     /\ UserAppended => /\ messages[n + 1].role = "user"
                        /\ messages[n + 1].text = pre.text

\* the Message Store is what it was before the send, followed by the user
\* message if the text typed is not blank, followed by an empty assistant
\* placeholder
StoreWithAppended ==
  LET n == Len(pre.messages)
      k == IF IsBlank(inputValue) THEN 1 ELSE 2
  IN /\ Len(messages) = n + k
     /\ SubSeq(messages, 1, n) = pre.messages
     /\ k = 2 => /\ messages[n + 1].role = "user"
                 /\ ~IsBlank(messages[n + 1].text)
     /\ messages[n + k].role = "assistant"
     /\ messages[n + k].text = <<>>
     /\ Count = pre.count + k

\* C1: after a non-2xx response the Message Store is exactly what it was
\* before the send (the appended messages are gone, every earlier message is
\* there, unchanged and in order), message_count has its pre-send value and
\* an error is shown.
C1_NonOkRollsBack ==
  outcome = "http_error" =>
    /\ StoreAsBefore
    /\ Count = pre.count
    /\ error # Null

C1_Witness ==
  /\ outcome = "http_error"
  /\ pre.messages # <<>>
  /\ UserAppended

\* C2: after a cancellation during streaming the assistant message of the
\* Exchange is gone from the Message Store, whatever events were processed,
\* the user message it appended is still there and the earlier messages are
\* unchanged.
C2_CancelRemovesAssistant ==
  outcome = "abort_stream" => StoreAsBeforePlusUser

\* C3: after a cancellation during streaming message_count is its post-send
\* value minus 1, that is the pre-send value plus the number of user messages
\* appended.
C3_CancelCount ==
  outcome = "abort_stream" => Count = pre.count + NumAppended - 1

\* C4: a cancellation in Sending or in Streaming sets no error and does not
\* reject.
C4_CancelIsSilent ==
  outcome \in {"abort_fetch", "abort_stream"} =>
    /\ error = Null
    /\ settled = "resolved"

\* C5: after a stream read failed with an error other than cancellation the
\* Exchange is rolled back in full: store and message_count as before the
\* send, and an error is shown.
C5_StreamErrorRollsBack ==
  outcome = "stream_error" =>
    /\ StoreAsBefore
    /\ Count = pre.count
    /\ error # Null

\* C6: after a transport failure without an HTTP response, or a response
\* without a readable body, the Exchange is rolled back in full: store and
\* message_count as before the send, and an error is shown.
C6_TransportFailureRollsBack ==
  outcome \in {"network_error", "no_body"} =>
    /\ StoreAsBefore
    /\ Count = pre.count
    /\ error # Null

\* C7: when the request has been issued the store is the earlier messages,
\* then a user message if and only if the text typed is not blank, then one
\* assistant placeholder with empty text as the last message, and
\* message_count grew by the number of messages appended (2 or 1); from then
\* on the store never holds more messages than that.
C7_OptimisticAppend ==
  /\ pc = "Sending" => StoreWithAppended
  /\ requests > 0 => Len(messages) <= Len(pre.messages) + NumAppended

C7_Witness ==
  /\ pc = "Sending"
  /\ IsBlank(inputValue)
  /\ pre.messages # <<>>

\* C8: while the stream is read and when it has ended (no frame after
\* [DONE]), the assistant
\* message is the last message and its content is the concatenation, in
\* receipt order, of the texts of the ContentDelta events received; when the
\* last MessageStart received was for the assistant role, the message has
\* that event's id.  So message_start(assistant, X), a, b, c, [DONE] gives
\* id X and text "abc".
C8_DeltasAccumulate ==
  (~readAfterDone /\ pc \in {"Streaming", "Reconciling"}) =>
    LET last == messages[Len(messages)]
    IN /\ last.role = "assistant"
       /\ last.text = Concat(received)
       /\ lastStart.role = "assistant" => last.id = lastStart.id

C8_Witness ==
  /\ pc = "Reconciling"
  /\ doneSeen
  /\ ~readAfterDone
  /\ messages[Len(messages)].id = ServerId
  /\ messages[Len(messages)].text = << "a", "b", "c" >>

\* C9: a send while an Exchange is in flight changes nothing: no message is
\* appended, message_count is unchanged, no request is issued and the
\* cancellation controller of the Exchange in flight is not replaced.
C9_SendInFlightIsNoOp ==
  [][(pc # "Idle" /\ handleSend) =>
       UNCHANGED << pc, messages, conversations, requests, abortControllerRef,
                    controllers, aborted, exch, uuid, loading, error >>]_vars

\* a send was invoked after the cancel button, while the Exchange is still
\* in flight
C9_Witness ==
  /\ pc = "Streaming"
  /\ SignalAborted
  /\ lastCall = "send"

\* C10: a send with blank text and no target persona changes neither the
\* Message Store, nor message_count, nor the loading flag, nor the error, and
\* issues no request.
C10_BlankSendIsNoOp ==
  [][(IsBlank(inputValue) /\ selectedPersona = Null /\ handleSend) =>
       UNCHANGED << messages, conversations, loading, error, requests, pc >>]_vars

\* the send was invoked on a whitespace-only text without persona
C10_Witness ==
  /\ lastCall = "send"
  /\ inputValue = << " " >>
  /\ selectedPersona = Null
  /\ pc = "Idle"

\* C11: a malformed frame (payload that is not JSON, JSON that does not
\* parse, or an event lacking its fields) neither ends nor fails the
\* Exchange; the deltas before and after it apply, and the text of the
\* assistant message is the concatenation of the valid deltas received.
C11_MalformedFrameSkipped ==
  /\ [](( /\ malformed > 0
          /\ ~readAfterDone
          /\ pc \in {"Streaming", "Reconciling"} )
        => /\ messages[Len(messages)].role = "assistant"
           /\ messages[Len(messages)].text = Concat(received))
  /\ [][malformed' > malformed
          => /\ pc' = "Streaming"
             /\ error' = Null
             /\ loading'
             /\ outcome' = "none"]_vars

C11_Witness ==
  /\ malformed = 3
  /\ pc = "Reconciling"
  /\ ~readAfterDone
  /\ Len(messages[Len(messages)].text) >= 2
  /\ messages[Len(messages)].text = Concat(received)

\* C12: when the fetch of the message list after the stream fails, the
\* Exchange's messages and text stay as streamed, no error is shown and the
\* send resolves as a success.
C12_ReconcileFailureIsSilent ==
  outcome = "reconcile_error"
    => /\ error = Null
       /\ settled = "resolved"
       /\ Len(messages) = Len(pre.messages) + NumAppended

\* C14: once [DONE] has been received, no later frame, in the same chunk or
\* in a later one, changes the Message Store or the accumulated text.
C14_NothingAfterDone ==
  [][(doneSeen /\ reads' > reads)
       => UNCHANGED << messages, responseText >>]_vars

\* the assistant message after the whole body was processed as one chunk
WholeBody ==
  ProcessLines(Decode(wire.body),
               << AssistantPlaceholder(exch.assistantMessageId) >>,
               <<>>).messages[1]

\* C13: the events a response yields do not depend on how the network cut
\* the body into chunks: when the stream has ended, the assistant message
\* is the one the unsplit body gives.
C13_ChunkingIndependent ==
  (pc = "Reconciling" /\ wire.body # <<>>)
    => messages[Len(messages)] = WholeBody

\* C15: with two panels on different conversations sharing the list of
\* ConversationMetadata, no update made by one panel changes or reverts the
\* entry of the other panel's conversation.
C15_PanelsDoNotClobber ==
  [][/\ panel2' = panel2 => conversations'["c2"] = conversations["c2"]
     /\ panel2' # panel2 => conversations'["c1"] = conversations["c1"]]_vars

\* C16: cancel with no Exchange in flight (before any send, after the
\* Exchange resolved, or a second time after a first cancel) changes no
\* state, and every send gets a fresh controller: one aborted or dropped
\* for an earlier Exchange never aborts a later one.
C16_CancelOnlyItsOwnExchange ==
  [][/\ ((pc = "Idle" \/ SignalAborted) /\ handleCancel)
          => UNCHANGED << pc, messages, conversations, currentId, loading,
                          error, inputValue, selectedPersona,
                          abortControllerRef, controllers, aborted, exch,
                          responseText, uuid, requests, reads >>
     /\ requests' > requests
          => /\ exch'.abortController \notin aborted'
             /\ abortControllerRef' = exch'.abortController
     /\ aborted' # aborted
          => /\ pc # "Idle"
             /\ aborted' = aborted \cup {exch.abortController}]_vars

C16_Witness ==
  /\ pc = "Idle"
  /\ lastCall = "cancel"
  /\ requests = 2
  /\ aborted = {1}
  /\ outcome = "success"

\* C17: every Exchange that starts returns to Idle with loading cleared,
\* whatever its outcome, provided each network operation eventually
\* completes or fails; in Idle a new send is accepted.
C17_ExchangeResolves ==
  /\ (pc # "Idle") ~> (pc = "Idle" /\ ~loading)
  /\ [](pc = "Idle" => (~loading /\ abortControllerRef = 0))

C17_Witness ==
  /\ requests = 2
  /\ pc = "Sending"
  /\ loading
  /\ outcome = "none"
  /\ pre.messages # <<>>

\* C18: when an Exchange has resolved, by whatever outcome, message_count
\* has changed since before the send by exactly the net number of messages
\* the Exchange left in the Message Store.
C18_CountMatchesStore ==
  outcome # "none"
    => Count - pre.count = Len(messages) - Len(pre.messages)

\* C19: after the stream has ended, if the fetched message list contains a
\* message whose id is the final id of the assistant message (the server's
\* id where a message_start replaced the placeholder's), the usage of that
\* message is copied onto the assistant message in memory.
C19_UsageCopiedForFinalId ==
  [][\A serverIds \in SUBSET {exch.assistantMessageId, ServerId} :
       ( /\ pc = "Reconciling"
         /\ messages # <<>>
         /\ messages[Len(messages)].role = "assistant"
         /\ messages[Len(messages)].id \in serverIds
         /\ ReconcileOk(serverIds) )
       => messages'[Len(messages')].usage = FinalUsage]_vars

\* a message_start has given the assistant message its id
IdAssigned ==
  /\ lastStart # NoStart
  /\ ~(lastStart.role = "user" /\ exch.userMessage)
  /\ messages[Len(messages)].id = lastStart.id

\* C20: once a message_start has assigned the assistant message its id,
\* the id stays the same for the rest of the Exchange, whatever events
\* follow, further message_start events included.
C20_AssignedIdIsStable ==
  [][( /\ pc = "Streaming"
       /\ IdAssigned
       /\ pc' \in {"Streaming", "Reconciling"} )
     => messages'[Len(messages')].id = messages[Len(messages)].id]_vars

\* a chunk of one line, a message_start of role user with the given id
UserStart(id) == << Line("message_start", "user", id, <<>>) >>

\* C21: when the client appended a user message in this Exchange, a
\* message_start of role user leaves the Message Store unchanged and the
\* stream goes on.
C21_UserStartIgnored ==
  [][\A id \in {exch.assistantMessageId, ServerId} :
       (exch.userMessage /\ ReadChunk(UserStart(id)))
         => /\ messages' = messages
            /\ pc' = "Streaming"
            /\ error' = Null
            /\ loading']_vars

C21_Witness ==
  /\ pc = "Streaming"
  /\ exch.userMessage
  /\ reads = 1
  /\ lastStart = [role |-> "user", id |-> ServerId]
  /\ messages[Len(messages)] = AssistantPlaceholder(exch.assistantMessageId)

\* the lines the loop passes over: no "data: " prefix, a payload that does
\* not start with "{", another event type, a delta that is not a text delta
IgnoredKinds == {"noise", "nonjson", "other", "delta_other"}

\* C22: a line without the "data: " prefix, a payload that does not start
\* with "{", an event of another type and a content_block_delta that is not
\* a text delta each leave the Message Store and the accumulated text
\* unchanged, and neither end nor fail the stream.
C22_IgnoredFramesAreNoOps ==
  [][\A kind \in IgnoredKinds :
       ReadChunk(<< Line(kind, Null, 0, <<>>) >>)
         => /\ UNCHANGED << messages, responseText >>
            /\ pc' = "Streaming"
            /\ error' = Null
            /\ loading']_vars

C22_Witness ==
  /\ pc = "Streaming"
  /\ reads = MaxChunks
  /\ received = <<>>
  /\ lastStart = NoStart
  /\ malformed = 0
  /\ ~doneSeen
  /\ responseText = <<>>
  /\ messages[Len(messages)] = AssistantPlaceholder(exch.assistantMessageId)

\* C27: in a persona-only Exchange (no user message appended) a
\* message_start of role user changes neither the id nor the usage of the
\* assistant message.
C27_PersonaOnlyUserStart ==
  [][\A id \in {exch.assistantMessageId, ServerId} :
       (~exch.userMessage /\ ReadChunk(UserStart(id)))
         => /\ messages'[Len(messages')].id = messages[Len(messages)].id
            /\ messages'[Len(messages')].usage = messages[Len(messages)].usage]_vars

\* the outcomes of an Exchange that failed or was cancelled before the
\* stream ended
EndsEarly ==
  {"http_error", "network_error", "no_body", "abort_fetch", "abort_stream",
   "stream_error"}

\* C23: within one Exchange the optimistic append comes first, then the
\* request, then the stream reads, then the reconciliation fetch; that
\* fetch is issued only when the stream has ended normally, never by an
\* Exchange that failed or was cancelled.
C23_StepsInOrder ==
  [][/\ (pc' = "Sending" /\ pc # "Sending")
          => /\ pc = "Idle"
             /\ Len(messages') > Len(messages)
             /\ messages'[Len(messages')] =
                  AssistantPlaceholder(exch'.assistantMessageId)
     /\ (pc' = "Streaming" /\ pc # "Streaming") => (pc = "Sending" /\ FetchOk)
     /\ reads' # reads => (pc = "Streaming" /\ pc' = "Streaming")
     /\ (pc' = "Reconciling" /\ pc # "Reconciling")
          => (pc = "Streaming" /\ ReadDone)
     /\ (outcome = "none" /\ outcome' \in EndsEarly)
          => pc \in {"Sending", "Streaming"}
     /\ (outcome = "none" /\ outcome' \in {"success", "reconcile_error"})
          => pc = "Reconciling"]_vars

C23_Witness ==
  /\ pc = "Reconciling"
  /\ reads > 0
  /\ messages[Len(messages)].text = <<"a">>
  /\ Len(messages) = Len(pre.messages) + NumAppended

\* C24: when the send fails, the text typed in the message input is not
\* cleared.
C24_FailedSendKeepsInput ==
  [][(settled = "none" /\ settled' = "rejected")
       => inputValue' = inputValue]_vars

\* C25: message_count of every conversation is non-negative in every
\* reachable state.
C25_CountNonNegative == \A c \in ConvIds : conversations[c] >= 0

\* C29: a cancel issued while the reconciliation fetch is outstanding
\* changes neither the Message Store nor message_count; both appended
\* messages stay, and when the fetch answers the Exchange resolves as a
\* success with no error.
C29_CancelWhileReconciling ==
  /\ [](cancelledAt = "Reconciling"
         => /\ pc = "Reconciling"
            /\ Len(messages) = Len(pre.messages) + NumAppended
            /\ SubSeq(messages, 1, Len(pre.messages)) = pre.messages
            /\ UserAppended => messages[Len(messages) - 1].role = "user"
            /\ messages[Len(messages)].role = "assistant"
            /\ Count = pre.count + NumAppended
            /\ error = Null)
  /\ [][/\ (pc = "Reconciling" /\ handleCancel)
             => UNCHANGED << pc, messages, conversations, loading, error >>
        /\ \A serverIds \in SUBSET {exch.assistantMessageId, ServerId} :
             (cancelledAt = "Reconciling" /\ ReconcileOk(serverIds))
               => /\ Len(messages') = Len(messages)
                  /\ conversations' = conversations
                  /\ error' = Null
                  /\ outcome' = "success"
                  /\ settled' = "resolved"]_vars

C29_Witness ==
  /\ pc = "Reconciling"
  /\ cancelledAt = "Reconciling"
  /\ lastCall = "cancel"
  /\ SignalAborted
  /\ Len(messages) = 2

\* C30: loading is true exactly while an Exchange is in flight, and while
\* it is true and cancel has not been invoked the controller reference
\* holds the running Exchange's controller, so the first cancel of an
\* Exchange in flight aborts that Exchange's signal.
C30_LoadingAndController ==
  /\ [](/\ loading <=> pc # "Idle"
        /\ (loading /\ cancelledAt = "none")
             => /\ abortControllerRef # 0
                /\ abortControllerRef = exch.abortController
                /\ ~SignalAborted)
  /\ [][(loading /\ cancelledAt = "none" /\ handleCancel)
          => exch.abortController \in aborted']_vars

C30_Witness ==
  /\ pc = "Streaming"
  /\ loading
  /\ cancelledAt = "Streaming"
  /\ SignalAborted
  /\ abortControllerRef = 0
  /\ requests = 2

\* ids of messages that are not the running Exchange's assistant message
ForeignIds ==
  {PriorMessages[i].id : i \in 1..Len(PriorMessages)}
  \cup {OtherMessages[i].id : i \in 1..Len(OtherMessages)}
  \cup {exch.userMessageId}

\* C26: the stream events of an Exchange change only that Exchange's
\* assistant message: whatever the user deleted or switched to while the
\* stream is open, a read changes the id, usage and content of no other
\* message.
C26_StreamTouchesOwnMessage ==
  [][reads' # reads
       => \A i \in 1..Len(messages) :
            messages[i].id \in ForeignIds
              => (i <= Len(messages') /\ messages'[i] = messages[i])]_vars

IsPrior(msg) == \E i \in 1..Len(PriorMessages) : PriorMessages[i].id = msg.id
IsNotPrior(msg) == ~IsPrior(msg)

\* C28: when a message of the conversation was deleted while the Exchange
\* was in flight and the Exchange then failed with a non-2xx status or was
\* cancelled, message_count is the count before the send, minus one for
\* the deletion, plus the messages the Exchange left in the store.
C28_RollbackKeepsDeletion ==
  ( /\ outcome \in {"http_error", "abort_stream"}
    /\ deleting.pc = "ok"
    /\ deleting.during = requests
    /\ deleting.messageId \in {801, 802}
    /\ currentId = "c1" )
    => conversations["c1"]
         = pre.count - 1 + Len(SelectSeq(messages, IsNotPrior))

====
